---- MODULE Spec2Model ----
(***************************************************************************)
(* A model of the sensing subsystem: the sensor factory, the four sensor   *)
(* drivers it registers, and SensingClientService::_run, which loops over  *)
(* the configured include list, looks each name up, reads the driver and   *)
(* stores the formatted measurement under the upper-cased name.            *)
(*                                                                         *)
(* Strings are sequences of one-character strings, so that to_lowercase    *)
(* and to_uppercase are computed character by character.  Lux values are   *)
(* fixed-point, in hundredths of a lux.  The HAL and the device crates     *)
(* (esp_hal, bh1750, bme280, ds323x, vl53l0x) are the environment: each    *)
(* hardware exchange is an input with an Ok and an Err outcome, and so is  *)
(* every request a constructor makes to the HAL.  A panic (unwrap, expect) *)
(* ends the process: no action follows it.                                 *)
(***************************************************************************)
EXTENDS Integers, Sequences, FiniteSets, TLC

(***************************************************************************)
(* Bounds of the model.                                                    *)
(***************************************************************************)
MaxInclude == 2

MaxCycles == 2

(***************************************************************************)
(* Strings and case conversion (String::to_lowercase, to_uppercase).       *)
(***************************************************************************)
LowerLetters ==
    <<"a","b","c","d","e","f","g","h","i","j","k","l","m",
      "n","o","p","q","r","s","t","u","v","w","x","y","z">>

UpperLetters ==
    <<"A","B","C","D","E","F","G","H","I","J","K","L","M",
      "N","O","P","Q","R","S","T","U","V","W","X","Y","Z">>

LowerChar(c) ==
    IF \E n \in 1..26 : UpperLetters[n] = c
    THEN LowerLetters[CHOOSE n \in 1..26 : UpperLetters[n] = c]
    ELSE c

UpperChar(c) ==
    IF \E n \in 1..26 : LowerLetters[n] = c
    THEN UpperLetters[CHOOSE n \in 1..26 : LowerLetters[n] = c]
    ELSE c

to_lowercase(s) == [n \in 1..Len(s) |-> LowerChar(s[n])]

to_uppercase(s) == [n \in 1..Len(s) |-> UpperChar(s[n])]

(***************************************************************************)
(* SensorConstant: the catalog of short-names.                             *)
(***************************************************************************)
BH1750 == <<"b","h","1","7","5","0">>

BME280 == <<"b","m","e","2","8","0">>

BME680 == <<"b","m","e","6","8","0">>

DS3231SN == <<"d","s","3","2","3","1","s","n">>

LSM303DLHACCEL == <<"l","s","m","3","0","3","d","l","h","a","c","c","e","l">>

LSM303DLHMAG == <<"l","s","m","3","0","3","d","l","h","m","a","g">>

VL5310X == <<"v","l","5","3","l","0","x">>

Catalog == {BH1750, BME280, BME680, DS3231SN, LSM303DLHACCEL, LSM303DLHMAG, VL5310X}

(***************************************************************************)
(* Names a configuration may hold: the four names the factory registers,   *)
(* a catalog name it does not register (bme680 stands for the two lsm303   *)
(* names, which the code treats alike), a name outside the catalog and a   *)
(* catalog name written in another case.                                   *)
(***************************************************************************)
NoSuch == <<"n","o","s","u","c","h">>

MixedBH1750 == <<"B","h","1","7","5","0">>

ConfigNames == {BH1750, BME280, BME680, DS3231SN, VL5310X, NoSuch, MixedBH1750}

RECURSIVE SeqsUpTo(_, _)
SeqsUpTo(S, n) ==
    IF n = 0 THEN {<<>>}
    ELSE LET shorter == SeqsUpTo(S, n - 1)
         IN  shorter \cup {Append(s, x) : s \in {t \in shorter : Len(t) = n - 1}, x \in S}

(***************************************************************************)
(* Results: Ok(value) and Err(error).  Panic(at) is the outcome of an      *)
(* unwrap() or expect() on a failure: the call does not return.            *)
(***************************************************************************)
Ok(v) == [ok |-> TRUE, val |-> v]

Err(e) == [ok |-> FALSE, err |-> e]

Panic(at) == [ok |-> FALSE, panic |-> at]

IsPanic(r) == ~r.ok /\ "panic" \in DOMAIN r

(***************************************************************************)
(* A driver is [kind, i2c]; i2c = "own" says that the driver's constructor *)
(* took the peripherals and built an I2cDriver on i2c0 for itself.         *)
(***************************************************************************)
Driver(kind) == [kind |-> kind, i2c |-> "own"]

\* The error of an I2C exchange or of the I2C driver's set-up.
I2cError == [kind |-> "I2cError"]

(***************************************************************************)
(* BH1750: get_light_condition matches an f32 against inclusive ranges     *)
(* whose lower limits are the literals 10.1, 50.1, ...; lux is in          *)
(* hundredths of a lux here.                                               *)
(***************************************************************************)
get_light_condition(lux) ==
    IF      lux >= 0      /\ lux <= 1000    THEN "VERY_DARK"
    ELSE IF lux >= 1010   /\ lux <= 5000    THEN "DARK"
    ELSE IF lux >= 5010   /\ lux <= 20000   THEN "DIM"
    ELSE IF lux >= 20010  /\ lux <= 100000  THEN "NORMAL"
    ELSE IF lux >= 100010 /\ lux <= 500000  THEN "BRIGHT"
    ELSE IF lux >= 500010 /\ lux <= 1000000 THEN "VERY_BRIGHT"
    ELSE "EXTREME"

\* BH1750Sensor::new: env.take is whether Peripherals::take() grants the
\* peripherals (unwrap), env.i2c whether I2cDriver::new succeeds (`?`).
BH1750Sensor_new(env) ==
    IF ~env.take THEN Panic("Peripherals::take")
    ELSE IF ~env.i2c THEN Err(I2cError)
    ELSE Ok(Driver("BH1750Sensor"))

\* hw is the outcome of get_one_time_measurement(Resolution::High).
BH1750Sensor_read(hw) ==
    IF hw.ok
    THEN Ok([type |-> "BH1750SensorMeasurement", lux |-> hw.val,
             condition |-> get_light_condition(hw.val)])
    ELSE Ok([type |-> "BH1750SensorMeasurement", lux |-> 0,
             condition |-> "UNKNOWN"])

(***************************************************************************)
(* BME280: hw is the outcome of measure().                                 *)
(***************************************************************************)
\* BME280Sensor::new: the result of I2cDriver::new is handed on unexamined;
\* env.device is whether sensor.init() succeeds (unwrap).
BME280Sensor_new(env) ==
    IF ~env.take THEN Panic("Peripherals::take")
    ELSE IF ~env.device THEN Panic("BME280::init")
    ELSE Ok(Driver("BME280Sensor"))

BME280Sensor_read(hw) ==
    IF hw.ok
    THEN Ok([type |-> "BME280SensorMeasurement", temperature |-> hw.val.temperature,
             humidity |-> hw.val.humidity, pressure |-> hw.val.pressure])
    ELSE Ok([type |-> "BME280SensorMeasurement", temperature |-> 0,
             humidity |-> 0, pressure |-> 0])

(***************************************************************************)
(* VL53L0X.                                                                *)
(***************************************************************************)
I32Max == 2147483647

\* A classification whose first arm stops one millimetre short.
get_distance_status_short_arm(distance_mm) ==
    IF      distance_mm >= 0    /\ distance_mm <= 9    THEN "TOO_CLOSE"
    ELSE IF distance_mm >= 10   /\ distance_mm <= 50   THEN "VERY_CLOSE"
    ELSE IF distance_mm >= 51   /\ distance_mm <= 200  THEN "CLOSE"
    ELSE IF distance_mm >= 201  /\ distance_mm <= 500  THEN "NEAR"
    ELSE IF distance_mm >= 501  /\ distance_mm <= 1000 THEN "MEDIUM"
    ELSE IF distance_mm >= 1001 /\ distance_mm <= 2000 THEN "FAR"
    ELSE "OUT_OF_RANGE"

get_distance_status(distance_mm) ==
    IF      distance_mm >= 0    /\ distance_mm <= 10   THEN "TOO_CLOSE"
    ELSE IF distance_mm >= 11   /\ distance_mm <= 50   THEN "VERY_CLOSE"
    ELSE IF distance_mm >= 51   /\ distance_mm <= 200  THEN "CLOSE"
    ELSE IF distance_mm >= 201  /\ distance_mm <= 500  THEN "NEAR"
    ELSE IF distance_mm >= 501  /\ distance_mm <= 1000 THEN "MEDIUM"
    ELSE IF distance_mm >= 1001 /\ distance_mm <= 2000 THEN "FAR"
    ELSE "OUT_OF_RANGE"

\* VL53L0XSensor::new: env.device is whether VL53L0x::new succeeds (unwrap).
VL53L0XSensor_new(env) ==
    IF ~env.take THEN Panic("Peripherals::take")
    ELSE IF ~env.device THEN Panic("VL53L0x::new")
    ELSE Ok(Driver("VL53L0XSensor"))

\* hw is the outcome of read_range_single_millimeters_blocking().
VL53L0XSensor_read(hw) ==
    IF hw.ok
    THEN Ok([type |-> "VL53L0XSensorMeasurement", distance_mm |-> hw.val,
             status |-> get_distance_status(hw.val)])
    ELSE Ok([type |-> "VL53L0XSensorMeasurement", distance_mm |-> I32Max,
             status |-> "UNKNOWN"])

(***************************************************************************)
(* DS323X.  The chip is [set, time]: whether its time has been set, and    *)
(* the time it holds.  A clock outcome is SystemTime::now()                *)
(* .duration_since(UNIX_EPOCH): Ok(seconds), or an error that `?` makes    *)
(* the function leave with.  NaiveDateTime::from_timestamp_opt answers     *)
(* None for a timestamp outside chrono's range; such timestamps lie beyond *)
(* the integers of the model, so its answer is the input `datetime`.       *)
(***************************************************************************)
SystemTimeError == [kind |-> "SystemTimeError"]

\* DS323XSensor::new: the exits in the order of the code.  Only the last
\* one has written the chip, with the system time, whatever the chip held.
\* env.device is whether set_datetime succeeds.  The result is the
\* constructor's outcome and the chip after it.
DS323XSensor_new(env, chip) ==
    IF ~env.take THEN [res |-> Panic("Peripherals::take"), chip |-> chip]
    ELSE IF ~env.clock.ok THEN [res |-> Err(SystemTimeError), chip |-> chip]
    ELSE IF ~env.datetime THEN [res |-> Panic("Invalid timestamp"), chip |-> chip]
    ELSE IF ~env.device THEN [res |-> Err(I2cError), chip |-> chip]
    ELSE [res |-> Ok(Driver("DS323XSensor")),
          chip |-> [set |-> TRUE, time |-> env.clock.val]]

\* hw is the outcome of sensor.now(); on Err the system time stands in.
DS323XSensor_read(hw, chip) ==
    IF hw.ok
    THEN Ok([type |-> "DS323XSensorMeasurement", datetime |-> chip.time])
    ELSE IF ~hw.clock.ok THEN Err(SystemTimeError)
    ELSE IF ~hw.datetime THEN Panic("Invalid timestamp")
    ELSE Ok([type |-> "DS323XSensorMeasurement", datetime |-> hw.clock.val])

(***************************************************************************)
(* SensorFactory.  new calls the four constructors in the order of its     *)
(* store.insert lines, whatever the configuration holds, and boxes what    *)
(* each returns.  A constructor that panics ends new there; the value of   *)
(* a constructor that left with an error is no driver, and the slot holds  *)
(* that error.                                                             *)
(***************************************************************************)
\* The order of the store.insert calls.
BuildOrder == <<BME280, BH1750, DS3231SN, VL5310X>>

StoreKeys == {BuildOrder[n] : n \in 1..Len(BuildOrder)}

\* The slot of a constructor that left with the error e.
Failed(e) == [kind |-> "Failed", i2c |-> "none", err |-> e]

\* What Box::new(r) puts in the store for the constructor's result r.
Slot(r) == IF r.ok THEN r.val ELSE Failed(r.err)

\* The result is new's outcome (Ok(store) or the panic), the chip after it
\* and `built`, the keys whose constructors returned a driver.
SensorFactory_new(env, chip) ==
    LET bme == BME280Sensor_new(env.bme280)
        bh  == BH1750Sensor_new(env.bh1750)
        ds  == DS323XSensor_new(env.ds3231sn, chip)
        vl  == VL53L0XSensor_new(env.vl5310x)
        ok(k, r) == IF r.ok THEN {k} ELSE {}
    IN  IF IsPanic(bme) THEN [res |-> bme, chip |-> chip, built |-> {}]
        ELSE IF IsPanic(bh)
             THEN [res |-> bh, chip |-> chip, built |-> ok(BME280, bme)]
        ELSE IF IsPanic(ds.res)
             THEN [res |-> ds.res, chip |-> ds.chip,
                   built |-> ok(BME280, bme) \cup ok(BH1750, bh)]
        ELSE IF IsPanic(vl)
             THEN [res |-> vl, chip |-> ds.chip,
                   built |-> ok(BME280, bme) \cup ok(BH1750, bh) \cup ok(DS3231SN, ds.res)]
        ELSE [res |-> Ok([k \in StoreKeys |->
                            CASE k = BME280   -> Slot(bme)
                              [] k = BH1750   -> Slot(bh)
                              [] k = DS3231SN -> Slot(ds.res)
                              [] k = VL5310X  -> Slot(vl)]),
              chip |-> ds.chip,
              built |-> ok(BME280, bme) \cup ok(BH1750, bh) \cup ok(DS3231SN, ds.res)
                          \cup ok(VL5310X, vl)]

NotFound(key) == [kind |-> "NotFound", key |-> key]

SensorFactory_get(st, key) ==
    IF key \in DOMAIN st THEN Ok(st[key]) ELSE Err(NotFound(key))

(***************************************************************************)
(* ISensor::read_sync, dispatched on the driver's concrete type.  _run     *)
(* also calls it on a slot that holds a constructor's error.  The source   *)
(* defines no read of such a slot; the call is synchronous, so _run goes   *)
(* on with what it returns or the call unwinds.  The slot holds no driver  *)
(* to measure with, so what comes out is its error: returned, or by a      *)
(* panic (hw.unwrap says which).  Both outcomes are open.                  *)
(***************************************************************************)
read_sync(sensor, hw, chip) ==
    CASE sensor.kind = "Failed" ->
           IF hw.unwrap THEN Panic(sensor.err.kind) ELSE Err(sensor.err)
      [] sensor.kind = "BH1750Sensor"  -> BH1750Sensor_read(hw)
      [] sensor.kind = "BME280Sensor"  -> BME280Sensor_read(hw)
      [] sensor.kind = "DS323XSensor"  -> DS323XSensor_read(hw, chip)
      [] sensor.kind = "VL53L0XSensor" -> VL53L0XSensor_read(hw)

(***************************************************************************)
(* format!("{:?}", data): the derived Debug rendering, the struct's name   *)
(* followed by its fields in declaration order.                            *)
(***************************************************************************)
format_debug(m) ==
    CASE m.type = "BH1750SensorMeasurement" ->
           <<m.type, <<"lux", m.lux>>, <<"condition", m.condition>>>>
      [] m.type = "BME280SensorMeasurement" ->
           <<m.type, <<"temperature", m.temperature>>, <<"humidity", m.humidity>>,
             <<"pressure", m.pressure>>>>
      [] m.type = "DS323XSensorMeasurement" ->
           <<m.type, <<"datetime", m.datetime>>>>
      [] m.type = "VL53L0XSensorMeasurement" ->
           <<m.type, <<"distance_mm", m.distance_mm>>, <<"status", m.status>>>>

\* BTreeMap::insert: the value of an existing key is replaced.
insert(map, key, value) ==
    [k \in DOMAIN map \cup {key} |-> IF k = key THEN value ELSE map[k]]

\* An iteration that walks the list from its end.
sensor_key_at_reversed(include_sensors, n) ==
    include_sensors[Len(include_sensors) + 1 - n]

\* `for sensor_key in include_sensors`: the key of the n-th iteration.
sensor_key_at(include_sensors, n) == include_sensors[n]

(***************************************************************************)
(* Inputs: what the hardware and the system clock may answer.              *)
(***************************************************************************)
Times == {1735776245, 1735776246}

LuxSamples == {500, 25000}

AtmosphereSamples == {[temperature |-> 210, humidity |-> 550, pressure |-> 10110]}

DistanceSamples == {7, 2500}

ClockOutcomes == {Ok(t) : t \in Times} \cup {Err(SystemTimeError)}

\* What the HAL and the devices answer to the four constructors.  An answer
\* that a constructor does not come to ask for, because it left before, is
\* not varied.
TakeDevice ==
    {[take |-> FALSE, device |-> TRUE]} \cup {[take |-> TRUE, device |-> d] : d \in BOOLEAN}

TakeI2c ==
    {[take |-> FALSE, i2c |-> TRUE]} \cup {[take |-> TRUE, i2c |-> b] : b \in BOOLEAN}

ClockTaken ==
    {[take |-> FALSE, clock |-> Err(SystemTimeError), datetime |-> TRUE, device |-> TRUE],
     [take |-> TRUE, clock |-> Err(SystemTimeError), datetime |-> TRUE, device |-> TRUE]}
    \cup {[take |-> TRUE, clock |-> Ok(t), datetime |-> FALSE, device |-> TRUE] : t \in Times}
    \cup {[take |-> TRUE, clock |-> Ok(t), datetime |-> TRUE, device |-> d] :
             t \in Times, d \in BOOLEAN}

\* The answers to a constructor that new does not come to call, because a
\* constructor before it panicked, are not varied either.
FactoryEnvs ==
    LET quiet == [take |-> TRUE, device |-> TRUE]
        p1(e) == IsPanic(BME280Sensor_new(e.bme280))
        p2(e) == p1(e) \/ IsPanic(BH1750Sensor_new(e.bh1750))
        p3(e) == p2(e) \/ IsPanic(DS323XSensor_new(e.ds3231sn, [set |-> FALSE, time |-> 0]).res)
    IN  {e \in [bme280 : TakeDevice, bh1750 : TakeI2c, ds3231sn : ClockTaken,
                vl5310x : TakeDevice] :
           /\ p1(e) => e.bh1750 = [take |-> TRUE, i2c |-> TRUE]
           /\ p2(e) => e.ds3231sn = [take |-> TRUE, clock |-> Ok(1735776245),
                                     datetime |-> TRUE, device |-> TRUE]
           /\ p3(e) => e.vl5310x = quiet}

HwOutcomes(sensor) ==
    CASE sensor.kind = "BH1750Sensor"  ->
           {Ok(l) : l \in LuxSamples} \cup {[ok |-> FALSE]}
      [] sensor.kind = "BME280Sensor"  ->
           {Ok(m) : m \in AtmosphereSamples} \cup {[ok |-> FALSE]}
      [] sensor.kind = "DS323XSensor"  ->
           {[ok |-> TRUE]} \cup {[ok |-> FALSE, clock |-> c, datetime |-> d] :
                                    c \in ClockOutcomes, d \in BOOLEAN}
      \* A slot that holds a constructor's error: no device is asked; the
      \* input is which way the error comes out of the call.
      [] sensor.kind = "Failed" ->
           {[ok |-> FALSE, unwrap |-> u] : u \in BOOLEAN}
      [] sensor.kind = "VL53L0XSensor" ->
           {Ok(d) : d \in DistanceSamples} \cup {[ok |-> FALSE]}

(***************************************************************************)
(* State.                                                                  *)
(*   include      config.include, fixed at boot                            *)
(*   pc           where _run stands: "idle", "loop", "reading", or         *)
(*                "panicked" once a panic has ended the process            *)
(*   idx          the iteration of the for loop (1-based)                  *)
(*   store        the store of the factory built by the running cycle      *)
(*   sensor       the driver the lookup returned, while it is being read   *)
(*   data         the BTreeMap being filled                                *)
(*   result       what the last run returned, or the panic that ended it   *)
(*   cycles       the number of runs that have returned                    *)
(*   constructed  per store key, how many drivers have been constructed    *)
(*   chip         the DS3231                                               *)
(*   trace        the read calls and returns of the current cycle          *)
(*   query        a pair of values handed to a classification function     *)
(*   answer       the labels the function returned for the pair            *)
(***************************************************************************)
VARIABLES include, pc, idx, store, sensor, data, result, cycles, constructed, chip,
          trace, query, answer

run_vars == <<include, pc, idx, store, sensor, data, result, cycles, constructed, chip,
              trace>>

vars == <<include, pc, idx, store, sensor, data, result, cycles, constructed, chip, trace,
          query, answer>>

NoQuery == [kind |-> "none"]

NoSensor == [kind |-> "none", i2c |-> "none"]

Init ==
    /\ include \in SeqsUpTo(ConfigNames, MaxInclude)
    /\ pc = "idle"
    /\ idx = 0
    /\ store = <<>>
    /\ sensor = NoSensor
    /\ data = <<>>
    /\ result = [kind |-> "none"]
    /\ cycles = 0
    /\ constructed = [k \in StoreKeys |-> 0]
    /\ chip \in {[set |-> FALSE, time |-> 0], [set |-> TRUE, time |-> 1735776245]}
    /\ trace = <<>>
    /\ query = NoQuery
    /\ answer = <<>>

\* _run, lines 61-68: the include list is cloned, a factory is built and with it
\* the drivers, and the map starts empty; a panic of a constructor unwinds
\* out of _run before the loop.
RunBegin ==
    /\ pc = "idle"
    /\ cycles < MaxCycles
    /\ \E env \in FactoryEnvs :
         LET f == SensorFactory_new(env, chip)
         IN  /\ constructed' = [k \in StoreKeys |->
                                  constructed[k] + (IF k \in f.built THEN 1 ELSE 0)]
             /\ chip' = f.chip
             /\ IF f.res.ok
                THEN /\ store' = f.res.val
                     /\ idx' = 1
                     /\ pc' = "loop"
                     /\ result' = [kind |-> "none"]
                ELSE /\ store' = <<>>
                     /\ idx' = 0
                     /\ pc' = "panicked"
                     /\ result' = [kind |-> "panic", at |-> f.res.panic]
    /\ data' = <<>>
    /\ trace' = <<>>
    /\ UNCHANGED <<include, sensor, cycles, query, answer>>

\* _run, lines 69-71: the next key is looked up in lower case; `?` returns the
\* lookup's error, otherwise the driver's read is entered.
LoopGet ==
    /\ pc = "loop"
    /\ idx <= Len(include)
    /\ LET key == to_lowercase(sensor_key_at(include, idx))
           got == SensorFactory_get(store, key)
       IN  IF got.ok
           THEN /\ trace' = Append(trace, [ev |-> "call", idx |-> idx, key |-> key])
                /\ pc' = "reading"
                /\ sensor' = got.val
                /\ UNCHANGED <<store, data, result, cycles, idx>>
           ELSE /\ result' = [kind |-> "err", err |-> got.err]
                /\ pc' = "idle"
                /\ cycles' = cycles + 1
                /\ store' = <<>>
                /\ data' = <<>>
                /\ UNCHANGED <<trace, idx, sensor>>
    /\ UNCHANGED <<include, constructed, chip, query, answer>>

\* _run, lines 71-79: the read returns; Ok is formatted and inserted under the
\* upper-cased key, Err is returned.  A read that panics does not return.
ReadReturn ==
    /\ pc = "reading"
    /\ LET key == to_lowercase(sensor_key_at(include, idx))
       IN  \E hw \in HwOutcomes(sensor) :
             LET r == read_sync(sensor, hw, chip)
             IN  IF IsPanic(r)
                 THEN /\ result' = [kind |-> "panic", at |-> r.panic]
                      /\ pc' = "panicked"
                      /\ store' = <<>>
                      /\ data' = <<>>
                      /\ UNCHANGED <<trace, idx, cycles>>
                 ELSE /\ trace' = Append(trace, [ev |-> "ret", idx |-> idx, key |-> key,
                                                 hwok |-> hw.ok, res |-> r])
                      /\ IF r.ok
                         THEN /\ data' = insert(data,
                                                to_uppercase(sensor_key_at(include, idx)),
                                                format_debug(r.val))
                              /\ idx' = idx + 1
                              /\ pc' = "loop"
                              /\ UNCHANGED <<store, result, cycles>>
                         ELSE /\ result' = [kind |-> "err", err |-> r.err]
                              /\ pc' = "idle"
                              /\ cycles' = cycles + 1
                              /\ store' = <<>>
                              /\ data' = <<>>
                              /\ UNCHANGED idx
    /\ sensor' = NoSensor
    /\ UNCHANGED <<include, constructed, chip, query, answer>>

\* _run, lines 81-85: the loop is over and the map is returned.
RunEnd ==
    /\ pc = "loop"
    /\ idx > Len(include)
    /\ result' = [kind |-> "ok", data |-> data]
    /\ pc' = "idle"
    /\ cycles' = cycles + 1
    /\ store' = <<>>
    /\ data' = <<>>
    /\ UNCHANGED <<include, idx, sensor, constructed, chip, trace, query, answer>>

Next == RunBegin \/ LoopGet \/ ReadReturn \/ RunEnd

Spec == Init /\ [][Next]_vars

(***************************************************************************)
(* The classification functions on their own.  A query is a pair a <= b    *)
(* of lux values (hundredths of a lux) or of distances (u16 millimetres);  *)
(* the step applies the function to both.  Lux values are taken from       *)
(* windows around the limits of the match arms, distances from the whole   *)
(* u16 range, each with itself and with its successor.                     *)
(***************************************************************************)
LuxWindow == 12

U16Max == 65535

\* The limits written in get_light_condition, in hundredths of a lux.
LuxLimits == {0, 1000, 5000, 20000, 100000, 500000, 1000000}

LuxProbes ==
    {l \in UNION {(m - LuxWindow)..(m + LuxWindow) : m \in LuxLimits} : l >= 0}

\* The successor of a distance within u16.
NextDistance(a) == IF a < U16Max THEN a + 1 ELSE a

InitClassify ==
    /\ include = <<>>
    /\ pc = "idle"
    /\ idx = 0
    /\ store = <<>>
    /\ sensor = NoSensor
    /\ data = <<>>
    /\ result = [kind |-> "none"]
    /\ cycles = 0
    /\ constructed = [k \in StoreKeys |-> 0]
    /\ chip = [set |-> FALSE, time |-> 0]
    /\ trace = <<>>
    /\ \/ \E a \in LuxProbes : \E b \in {l \in LuxProbes : l >= a} :
             query = [kind |-> "lux", a |-> a, b |-> b]
       \/ \E a \in 0..U16Max : \E b \in {a, NextDistance(a)} :
             query = [kind |-> "distance", a |-> a, b |-> b]
    /\ answer = <<>>

ClassifyLight ==
    /\ query.kind = "lux"
    /\ answer = <<>>
    /\ answer' = <<get_light_condition(query.a), get_light_condition(query.b)>>
    /\ UNCHANGED <<run_vars, query>>

ClassifyDistance ==
    /\ query.kind = "distance"
    /\ answer = <<>>
    /\ answer' = <<get_distance_status(query.a), get_distance_status(query.b)>>
    /\ UNCHANGED <<run_vars, query>>

NextClassify == ClassifyLight \/ ClassifyDistance

SpecClassify == InitClassify /\ [][NextClassify]_vars

(***************************************************************************)
(* Vocabulary of the properties.                                           *)
(***************************************************************************)
\* A run has returned.
Done == pc = "idle" /\ result.kind # "none"

\* A run has ended, by returning or by a panic.
Ended == Done \/ pc = "panicked"

Positions == 1..Len(include)

Registered(name) == to_lowercase(name) \in StoreKeys

InCatalog(name) == to_lowercase(name) \in Catalog

\* The run did not end on the system clock's error, nor on the error of a
\* constructor that came out of the read of its slot.
NoClockError ==
    ~(result.kind = "err" /\ result.err.kind \in {"SystemTimeError", "I2cError"})

\* The return events of the read made for position n of include.
RetsAt(n) == {p \in 1..Len(trace) : trace[p].ev = "ret" /\ trace[p].idx = n}

CallsOf(key) == {p \in 1..Len(trace) : trace[p].ev = "call" /\ trace[p].key = key}

\* The first position of include that holds the same name as position n.
FirstOf(n) ==
    CHOOSE m \in Positions :
        /\ to_lowercase(include[m]) = to_lowercase(include[n])
        /\ \A q \in 1..(m - 1) : to_lowercase(include[q]) # to_lowercase(include[n])

IsFailure(slot) == slot[1] = "Failure"

\* C1 (as claimed): once a run over registered names has returned, it has
\* returned a record; every position of include was read; the slot of a
\* sensor whose hardware read failed holds a Failure outcome, and every
\* other slot holds that sensor's own measurement.
C1_PartialFailure ==
    (Done /\ NoClockError /\ \A n \in Positions : Registered(include[n])) =>
        /\ result.kind = "ok"
        /\ \A n \in Positions :
             /\ RetsAt(n) # {}
             /\ \A p \in RetsAt(n) :
                  LET slot == result.data[to_uppercase(include[n])]
                  IN  /\ ~trace[p].hwok => IsFailure(slot)
                      /\ (trace[p].hwok /\ CallsOf(trace[p].key) = {p - 1}) =>
                            slot = format_debug(trace[p].res.val)

\* C2 (as claimed): a run whose include names are all catalog names returns
\* a record whose keys are exactly the upper-cased include names.
C2_RecordComplete ==
    (Done /\ NoClockError /\ \A n \in Positions : include[n] \in Catalog) =>
        /\ result.kind = "ok"
        /\ DOMAIN result.data = {to_uppercase(include[n]) : n \in Positions}

HasUnknown == \E n \in Positions : ~InCatalog(include[n])

\* C3 (as claimed): a run over an include list that holds a name outside the
\* catalog ends with an UnknownSensor error and no record.  Names are
\* compared in lower case, as the lookup does.
C3_UnknownSensorError ==
    (Done /\ NoClockError /\ HasUnknown) =>
        /\ result.kind = "err"
        /\ result.err.kind = "UnknownSensor"

\* The drivers inside a read that has not returned.
InTransaction == {trace[p].idx : p \in {q \in 1..Len(trace) :
                     trace[q].ev = "call" /\ RetsAt(trace[q].idx) = {}}}

\* C4 (as claimed): at most one driver is inside a bus transaction, and
\* every driver reaches the I2C peripheral through the one arbiter, none
\* through a handle of its own.
C4_BusExclusivity ==
    /\ Cardinality(InTransaction) <= 1
    /\ \A k \in DOMAIN store : store[k].i2c = "arbiter"

\* C5: the reads of a cycle are made in the order of include, one at a
\* time: the k-th call is for the k-th name of include, and each call after
\* the first follows the return of the read before it.
C5_ReadOrder ==
    \A p \in 1..Len(trace) :
        /\ trace[p].idx = (p + 1) \div 2
        /\ trace[p].ev = (IF p % 2 = 1 THEN "call" ELSE "ret")
        /\ trace[p].idx \in Positions
        /\ trace[p].key = to_lowercase(include[trace[p].idx])

\* C5 witness: a finished cycle that read two different sensors.
C5_Witness ==
    /\ Done
    /\ result.kind = "ok"
    /\ Len(trace) = 4
    /\ trace[1].key # trace[3].key
    /\ trace[4].ev = "ret"

\* C6 (as claimed): a repeated name is acted on once, at its first
\* occurrence: the sensor is read once and its slot holds the outcome of
\* the first occurrence.
C6_DuplicatesCollapse ==
    (Done /\ result.kind = "ok") =>
        \A n \in Positions :
            /\ Cardinality(CallsOf(to_lowercase(include[n]))) = 1
            /\ \A p \in RetsAt(FirstOf(n)) :
                 result.data[to_uppercase(include[n])] = format_debug(trace[p].res.val)

\* C7 (as claimed): each driver named in include is constructed at most
\* once over all cycles, and a driver not named in include is never
\* constructed.
C7_RegistryLifecycle ==
    \A k \in StoreKeys :
        /\ constructed[k] <= 1
        /\ k \notin {to_lowercase(include[n]) : n \in Positions} => constructed[k] = 0

\* C8 (as claimed): a chip whose time has been set is never written again,
\* by a construction, a boot or a read.
C8_SeedOnce == [][chip.set => chip' = chip]_vars

\* C9 (as claimed): a BME280 read whose measurement failed yields the
\* failure DeviceNotResponding, never a measurement.
C9_BME280Failure ==
    \A p \in 1..Len(trace) :
        (trace[p].ev = "ret" /\ trace[p].key = BME280 /\ ~trace[p].hwok) =>
            /\ ~trace[p].res.ok
            /\ trace[p].res.err.kind = "DeviceNotResponding"

\* C10 (as claimed): a VL53L0X read returns a distance within 0..65535, and
\* when the range measurement failed, the distance 65535 with status UNKNOWN.
C10_VL53L0XFailure ==
    \A p \in 1..Len(trace) :
        (trace[p].ev = "ret" /\ trace[p].key = VL5310X) =>
            /\ trace[p].res.ok
            /\ trace[p].res.val.distance_mm \in 0..65535
            /\ ~trace[p].hwok =>
                 /\ trace[p].res.val.distance_mm = 65535
                 /\ trace[p].res.val.status = "UNKNOWN"

(***************************************************************************)
(* The classifications as the specification words them.                    *)
(***************************************************************************)
Answered == answer # <<>>

\* [0,10], (10,50], (50,200], (200,1000], (1000,5000], (5000,10000], above.
ClaimedLightCondition(lux) ==
    IF      lux <= 1000    THEN "VERY_DARK"
    ELSE IF lux <= 5000    THEN "DARK"
    ELSE IF lux <= 20000   THEN "DIM"
    ELSE IF lux <= 100000  THEN "NORMAL"
    ELSE IF lux <= 500000  THEN "BRIGHT"
    ELSE IF lux <= 1000000 THEN "VERY_BRIGHT"
    ELSE "EXTREME"

LightConditions ==
    <<"VERY_DARK", "DARK", "DIM", "NORMAL", "BRIGHT", "VERY_BRIGHT", "EXTREME">>

ProximityClasses ==
    <<"TOO_CLOSE", "VERY_CLOSE", "CLOSE", "NEAR", "MEDIUM", "FAR", "OUT_OF_RANGE">>

IsLabel(labels, l) == \E n \in 1..Len(labels) : labels[n] = l

Rank(labels, l) == CHOOSE n \in 1..Len(labels) : labels[n] = l

\* [0,10], (10,50], (50,200], (200,500], (500,1000], (1000,2000], above.
ClaimedDistanceStatus(d) ==
    IF      d <= 10   THEN "TOO_CLOSE"
    ELSE IF d <= 50   THEN "VERY_CLOSE"
    ELSE IF d <= 200  THEN "CLOSE"
    ELSE IF d <= 500  THEN "NEAR"
    ELSE IF d <= 1000 THEN "MEDIUM"
    ELSE IF d <= 2000 THEN "FAR"
    ELSE "OUT_OF_RANGE"

\* C11 (as claimed): get_light_condition returns, for every lux >= 0, the
\* label of the bin [0,10], (10,50], (50,200], (200,1000], (1000,5000],
\* (5000,10000] or above 10000 that holds it; no value falls between bins.
C11_LightBins ==
    (query.kind = "lux" /\ Answered) =>
        /\ answer[1] = ClaimedLightCondition(query.a)
        /\ answer[2] = ClaimedLightCondition(query.b)

\* C12 (as claimed): both classifications return a label of their ranking
\* for every input, and the rank of the label never decreases as the input
\* grows: for a <= b, rank(label(a)) <= rank(label(b)).
C12_TotalMonotone ==
    Answered =>
        LET labels == IF query.kind = "lux" THEN LightConditions ELSE ProximityClasses
        IN  /\ IsLabel(labels, answer[1])
            /\ IsLabel(labels, answer[2])
            /\ Rank(labels, answer[1]) <= Rank(labels, answer[2])

\* C13: for every distance in 0..65535, get_distance_status returns the
\* label of the bin [0,10], (10,50], (50,200], (200,500], (500,1000],
\* (1000,2000] or above 2000 that holds it, and never UNKNOWN.
C13_DistanceBins ==
    (query.kind = "distance" /\ Answered) =>
        /\ answer[1] = ClaimedDistanceStatus(query.a)
        /\ answer[2] = ClaimedDistanceStatus(query.b)
        /\ answer[1] # "UNKNOWN"
        /\ answer[2] # "UNKNOWN"

\* C13 witness: the two sides of the first limit, 10 mm and 11 mm, have
\* been classified.
C13_Witness ==
    /\ query = [kind |-> "distance", a |-> 10, b |-> 11]
    /\ answer = <<"TOO_CLOSE", "VERY_CLOSE">>

\* C14 (as claimed): a cycle over an empty include list succeeds: once it
\* has ended it has returned a record with no data slot; no lookup has
\* failed and no driver has been read.
C14_EmptyInclude ==
    (Ended /\ include = <<>>) =>
        /\ result.kind = "ok"
        /\ DOMAIN result.data = {}
        /\ trace = <<>>

\* C15 (as claimed): every measurement a BH1750 read returns carries one of
\* the seven LightCondition labels, and a read whose hardware exchange
\* failed returns no measurement.
C15_ClosedLightCondition ==
    \A p \in 1..Len(trace) :
        (trace[p].ev = "ret" /\ trace[p].key = BH1750) =>
            /\ trace[p].res.ok => IsLabel(LightConditions, trace[p].res.val.condition)
            /\ ~trace[p].hwok => ~trace[p].res.ok

====
